---------------------------- MODULE Spec2Model ----------------------------
(***************************************************************************)
(* A model of src/main.py: the daily notification pipeline.                *)
(*                                                                         *)
(*   WeatherAPI.get_with_retry / get_weather   bounded-retry GET and the   *)
(*                                             per-region weather cache    *)
(*   DateCalculator.parse_date / calculate_days                            *)
(*   WeChatService.get_access_token / send_template_message                *)
(*   MessageGenerator.generate_message_data / send_messages                *)
(*                                                                         *)
(* The main thread is one sequential process (pc).  The send workers of    *)
(* the ThreadPoolExecutor are concurrent processes (wpc[i]); the shared    *)
(* attributes access_token and token_expire are read and written by them   *)
(* one attribute access at a time, as the interpreter does.                *)
(*                                                                         *)
(* Strings that the source writes in Chinese are written here in ASCII;    *)
(* the comment next to each gives the source's literal.  get_color() is    *)
(* a random value with no effect on control flow and is left out of the    *)
(* entries.                                                                *)
(***************************************************************************)
EXTENDS Integers, Sequences, FiniteSets, TLC

(***************************************************************************)
(* Bounds of the model and constants of the program.                       *)
(***************************************************************************)
MaxUsers == 2            \* longest recipient list tried
MaxTicks == 1            \* how many times the clock advances in a run
TickStep == 100          \* seconds per clock advance
MaxRetryArg == 3         \* largest max_retries the lookup driver passes
MaxCalls == 3            \* calls the lookup driver makes in one behaviour

DefaultMaxRetries == 3   \* get_with_retry(self, url, max_retries=3)
max_workers == 5         \* ThreadPoolExecutor(max_workers=5)
TokenMargin == 300       \* ... + response['expires_in'] - 300
StartTime == 1000        \* datetime.now().timestamp() when the run starts

None == [t |-> "None"]   \* Python's None (also what a JSON null parses to)
NoExc == "none"

(***************************************************************************)
(* Calendar arithmetic of datetime.date (proleptic Gregorian).             *)
(***************************************************************************)
IsLeap(y) == (y % 4 = 0) /\ ((y % 100 # 0) \/ (y % 400 = 0))

DaysInMonth(y, m) ==
    IF m = 2 THEN (IF IsLeap(y) THEN 29 ELSE 28)
    ELSE IF m \in {4, 6, 9, 11} THEN 30 ELSE 31

RECURSIVE DaysBeforeMonth(_, _)
DaysBeforeMonth(y, m) ==
    IF m <= 1 THEN 0 ELSE DaysBeforeMonth(y, m - 1) + DaysInMonth(y, m - 1)

ValidDate(y, m, d) ==
    /\ y \in 1..9999
    /\ m \in 1..12
    /\ d >= 1
    /\ d <= DaysInMonth(y, m)

Date(y, m, d) == [year |-> y, month |-> m, day |-> d]

\* date.toordinal(): 0001-01-01 is day 1
ToOrdinal(dt) ==
    LET y1 == dt.year - 1
    IN  365 * y1 + (y1 \div 4) - (y1 \div 100) + (y1 \div 400)
          + DaysBeforeMonth(dt.year, dt.month) + dt.day

\* date.weekday(): Monday is 0 ... Sunday is 6
weekday(dt) == (ToOrdinal(dt) + 6) % 7

\* DateCalculator.calculate_days(start_date, end_date)
calculate_days(start_date, end_date) == ToOrdinal(end_date) - ToOrdinal(start_date)

\* date.__lt__
DateLess(a, b) == ToOrdinal(a) < ToOrdinal(b)

(***************************************************************************)
(* Date strings.  A string "Y-M-D" or "rY-M-D" is the record of the three  *)
(* numbers written in it and of the leading 'r'; shaped is FALSE for a  *)
(* string that does not have the three-number shape at all.                *)
(***************************************************************************)
DateStr(l, y, m, d) == [lunar |-> l, y |-> y, m |-> m, d |-> d, shaped |-> TRUE]
Garbage == [lunar |-> FALSE, y |-> 0, m |-> 0, d |-> 0, shaped |-> FALSE]

\* ZhDate(y, m, d).to_datetime().date() for the lunar dates the model uses:
\* lunar new year's day of 2023 and of 2024.  Any other lunar date raises.
ZhDateTable ==
    { <<Date(2023, 1, 1), Date(2023, 1, 22)>>,
      <<Date(2024, 1, 1), Date(2024, 2, 10)>> }

ZhDateKnown(y, m, d) == \E p \in ZhDateTable : p[1] = Date(y, m, d)
ZhDateToSolar(y, m, d) == (CHOOSE p \in ZhDateTable : p[1] = Date(y, m, d))[2]

\* DateCalculator.parse_date: does it return (rather than raise)?
parse_ok(date_str) ==
    /\ date_str.shaped
    /\ IF date_str.lunar
       THEN ZhDateKnown(date_str.y, date_str.m, date_str.d)
       ELSE ValidDate(date_str.y, date_str.m, date_str.d)

\* DateCalculator.parse_date: the date it returns when it returns
parse_date(date_str) ==
    IF date_str.lunar
    THEN ZhDateToSolar(date_str.y, date_str.m, date_str.d)
    ELSE Date(date_str.y, date_str.m, date_str.d)

\* date.replace(year=y): raises ValueError when the result is no date
replace_ok(dt, y) == ValidDate(y, dt.month, dt.day)
replace_year(dt, y) == Date(y, dt.month, dt.day)

(***************************************************************************)
(* The fixed table of generate_message_data.                               *)
(*   "星期日", "星期一", "星期二", "星期三", "星期四", "星期五", "星期六"          *)
(***************************************************************************)
week_list ==
    << "Sunday", "Monday", "Tuesday", "Wednesday", "Thursday", "Friday", "Saturday" >>

Unknown == "unknown"     \* "未知"


(***************************************************************************)
(* Inputs: the configuration file and the system date of the run.          *)
(***************************************************************************)
Regions == {"Beijing", "Paris"}

Entry(n, ds) == [name |-> n, date |-> ds]

\* config['user']: n recipient ids
Users(n) == [i \in 1..n |-> "u" \o ToString(i)]

Config(r, anns, bds, n) ==
    [region |-> r, anniversaries |-> anns, birthdays |-> bds, user |-> Users(n)]

\* Configurations that exercise composition (one recipient each).
ComposeConfigs ==
    { Config("Beijing", << >>, << >>, 1),
      Config("Beijing",
             << Entry("wedding", DateStr(FALSE, 2020, 1, 1)) >>,
             << Entry("amy", DateStr(FALSE, 1990, 2, 28)) >>, 1),
      Config("Paris",
             << Entry("wedding", DateStr(FALSE, 2020, 1, 1)),
                Entry("met", DateStr(TRUE, 2023, 1, 1)) >>,
             << Entry("bob", DateStr(FALSE, 2000, 2, 29)),
                Entry("cat", DateStr(FALSE, 1990, 3, 1)) >>, 1),
      \* "2024-13-40" between two well-formed birthdays
      Config("Beijing",
             << Entry("wedding", DateStr(FALSE, 2020, 1, 1)) >>,
             << Entry("amy", DateStr(FALSE, 1990, 3, 2)),
                Entry("bad", DateStr(FALSE, 2024, 13, 40)),
                Entry("cat", DateStr(FALSE, 1990, 3, 1)) >>, 1),
      \* an anniversary whose date is not a date string at all
      Config("Paris",
             << Entry("bad", Garbage),
                Entry("wedding", DateStr(FALSE, 2020, 1, 1)) >>,
             << Entry("amy", DateStr(FALSE, 1990, 3, 2)) >>, 1) }

\* A configuration with two recipients, and the ones the dispatch
\* specification starts from: 1..MaxUsers recipients.
TwoUsers == Config("Beijing", << >>, << >>, 2)
DispatchConfigs == { Config("Beijing", << >>, << >>, n) : n \in 1..MaxUsers }

\* One week, Monday 2024-02-26 .. Sunday 2024-03-03 (with the leap day),
\* and a day of a year that has no Feb 29.
Week == { Date(2024, 2, 26), Date(2024, 2, 27), Date(2024, 2, 28), Date(2024, 2, 29),
          Date(2024, 3, 1), Date(2024, 3, 2), Date(2024, 3, 3) }
Todays == Week \cup { Date(2025, 3, 1) }

Scenarios ==
    { [config |-> c, date |-> t] : c \in ComposeConfigs, t \in Todays }
      \cup { [config |-> TwoUsers, date |-> Date(2024, 2, 26)] }

(***************************************************************************)
(* What the network can answer.                                            *)
(***************************************************************************)
Absent == "<absent>"     \* a key the JSON object does not have

\* URLs of the two qweather endpoints
location_url(r) == [endpoint |-> "geo", arg |-> r]
weather_url(id) == [endpoint |-> "weather", arg |-> id]

LocationIdOf(r) == "id-" \o r

EmptyObject == [t |-> "object", code |-> Absent, location |-> << >>,
                has_now |-> FALSE, now |-> None, empty |-> TRUE]

GeoObject(code, loc) ==
    [t |-> "object", code |-> code, location |-> loc,
     has_now |-> FALSE, now |-> None, empty |-> FALSE]

WeatherObject(code, has_now, now) ==
    [t |-> "object", code |-> code, location |-> << >>,
     has_now |-> has_now, now |-> now, empty |-> FALSE]

NowValues ==
    { [text |-> "Sunny", temp |-> "25", windDir |-> "N"],
      [text |-> "Rain", temp |-> "-3", windDir |-> "E"] }

\* the JSON bodies an endpoint may return for a URL
Responses(u) ==
    IF u.endpoint = "geo"
    THEN { None, EmptyObject,
           GeoObject(Absent, << >>),
           GeoObject("404", << >>),
           GeoObject("200", << >>),
           GeoObject("200", << [id |-> LocationIdOf(u.arg)] >>) }
    ELSE { None, EmptyObject,
           WeatherObject(Absent, FALSE, None),
           WeatherObject("404", FALSE, None),
           WeatherObject("200", FALSE, None) }
           \cup { WeatherObject("200", TRUE, n) : n \in NowValues }

\* Python truthiness of a parsed body: None and {} are falsy
Truthy(j) == j # None /\ ~j.empty

\* exceptions, by type and message
ValueErrorRegion == "ValueError: region lookup failed"      \* "地区查询失败"
ValueErrorWeather == "ValueError: weather lookup failed"    \* "天气查询失败"
ValueErrorAuth == "ValueError: wechat auth failed"          \* "微信API认证失败"
ValueErrorDate == "ValueError: bad date"                    \* strptime / replace / ZhDate
KeyError == "KeyError"
IndexError == "IndexError"
RequestException == "RequestException"                      \* requests' transport / decode errors

Returned(v) == [kind |-> "return", value |-> v, exc |-> NoExc]
\* nil is a value of the type the call would have returned
Raised(e, nil) == [kind |-> "raise", value |-> nil, exc |-> e]

EmptyDict == [k \in {} |-> None]
Merge(f, g) == [k \in DOMAIN f \cup DOMAIN g |-> IF k \in DOMAIN g THEN g[k] ELSE f[k]]
Put(f, k, v) == [x \in DOMAIN f \cup {k} |-> IF x = k THEN v ELSE f[x]]


(***************************************************************************)
(* State.                                                                  *)
(***************************************************************************)
VARIABLES
    config,             \* the loaded configuration
    sysdate,            \* the system's calendar date
    pc,                 \* where the main thread is
    exc,                \* the exception that ended the main thread, or NoExc
    \* WeatherAPI
    cache,              \* self.cache: region -> (text, temp, windDir)
    region,             \* get_weather's argument
    url, max_retries,   \* get_with_retry's arguments
    attempt,            \* iterations of its loop begun so far
    fetched,            \* what get_with_retry returned
    ret,                \* where get_with_retry returns to
    gwOut,              \* how get_weather ended: a value or an exception
    gets,               \* history: outcome of each GET of the current get_with_retry
    calls,              \* history: GETs issued since get_weather was entered
    resolved,           \* history: regions for which get_weather has returned a value
    ncalls,             \* history: calls the lookup driver has made
    \* MessageGenerator.generate_message_data
    today, weather, temp, wind_dir,
    lookup_exc,         \* history: the exception get_weather raised, or NoExc
    base_data, anniversary_data, birthday_data, idx,
    data,               \* the mapping it returns
    \* WeChatService
    access_token, token_expire,
    now,                \* datetime.now().timestamp()
    ticks,              \* how often the clock has advanced
    \* MessageGenerator.send_messages and its pool
    submitted,          \* futures submitted so far
    wpc,                \* per recipient: where its worker is
    wresp,              \* per recipient: the token response its worker holds
    wtoken,             \* per recipient: what get_access_token returned to it
    postResp,           \* per recipient: the provider's answer to its POST
    result,             \* per recipient: the outcome stored in its future
    results,            \* the list collected by f.result()
    summary,            \* the counts of the final log line
    tokenCalls,         \* history: GETs of the token endpoint
    expire_from,        \* history: the token whose response set token_expire
    posts               \* history: per recipient, POSTs issued

lookupVars == << cache, region, url, max_retries, attempt, fetched, ret, gwOut,
                 gets, calls, resolved, ncalls >>
composeVars == << today, weather, temp, wind_dir, lookup_exc, base_data,
                  anniversary_data, birthday_data, idx, data >>
tokenVars == << access_token, token_expire, tokenCalls, expire_from >>
clockVars == << now, ticks >>
poolVars == << submitted, wpc, wresp, wtoken, postResp, result, results,
               summary, posts >>
inputVars == << config, sysdate >>
vars == << inputVars, pc, exc, lookupVars, composeVars, tokenVars, clockVars, poolVars >>

N == Len(config.user)
Recipients == 1..N

Pending == [kind |-> "pending", value |-> FALSE, exc |-> NoExc]
NoResponse == [kind |-> "none", access_token |-> 0, expires_in |-> 0]
NoPost == [kind |-> "none", has_errcode |-> FALSE, errcode |-> 0]
NoCalls == [geo |-> 0, weather |-> 0, failed |-> 0, hit |-> FALSE, known |-> FALSE]

InitObjects(c, d) ==
    /\ config = c
    /\ sysdate = d
    /\ exc = NoExc
    /\ cache = EmptyDict                  \* self.cache = {}
    /\ region = c.region
    /\ url = location_url(c.region)
    /\ max_retries = DefaultMaxRetries
    /\ attempt = 0
    /\ fetched = None
    /\ ret = "none"
    /\ gwOut = Returned(<< >>)
    /\ gets = << >>
    /\ calls = NoCalls
    /\ resolved = {}
    /\ ncalls = 0
    /\ today = d
    /\ weather = Unknown /\ temp = Unknown /\ wind_dir = Unknown
    /\ anniversary_data = EmptyDict /\ birthday_data = EmptyDict
    /\ idx = 0
    /\ access_token = 0                   \* self.access_token = None
    /\ token_expire = 0                   \* self.token_expire = 0
    /\ now = StartTime
    /\ ticks = 0
    /\ submitted = 0
    /\ wpc = [i \in 1..Len(c.user) |-> "unsubmitted"]
    /\ wresp = [i \in 1..Len(c.user) |-> NoResponse]
    /\ wtoken = [i \in 1..Len(c.user) |-> 0]
    /\ postResp = [i \in 1..Len(c.user) |-> NoPost]
    /\ result = [i \in 1..Len(c.user) |-> Pending]
    /\ results = << >>
    /\ summary = [logged |-> FALSE, sent |-> 0, failed |-> 0]
    /\ tokenCalls = 0
    /\ expire_from = 0
    /\ posts = [i \in 1..Len(c.user) |-> 0]

InitState(c, d, p) ==
    /\ InitObjects(c, d)
    /\ pc = p
    /\ lookup_exc = NoExc
    /\ base_data = EmptyDict
    /\ data = EmptyDict

\* the program: __main__ has built MessageGenerator(config)
Init == \E s \in Scenarios : InitState(s.config, s.date, "start")

(***************************************************************************)
(* WeatherAPI.get_with_retry                                               *)
(***************************************************************************)
CountCall(c, u) ==
    IF u.endpoint = "geo" THEN [c EXCEPT !.geo = @ + 1] ELSE [c EXCEPT !.weather = @ + 1]
CountFailure(c, u) == [CountCall(c, u) EXCEPT !.failed = @ + 1]

\* (a variant: one iteration too many)
LoopOneMore(done, budget) == done <= budget

\* the loop goes on: for _ in range(max_retries)
LoopContinues(done, budget) == done < budget

\* get(url, timeout=10) or response.json() raises: log a warning, next iteration
GetFails ==
    /\ pc = "gwr_loop"
    /\ LoopContinues(attempt, max_retries)
    /\ attempt' = attempt + 1
    /\ gets' = Append(gets, [ok |-> FALSE, body |-> None])
    /\ calls' = CountFailure(calls, url)
    /\ UNCHANGED << inputVars, pc, exc, cache, region, url, max_retries, fetched, ret,
                    gwOut, resolved, ncalls, composeVars, tokenVars, clockVars, poolVars >>

\* the GET answers with a JSON body: return response.json()
GetSucceeds ==
    /\ pc = "gwr_loop"
    /\ LoopContinues(attempt, max_retries)
    /\ \E j \in Responses(url) :
         /\ fetched' = j
         /\ gets' = Append(gets, [ok |-> TRUE, body |-> j])
    /\ attempt' = attempt + 1
    /\ calls' = CountCall(calls, url)
    /\ pc' = ret
    /\ UNCHANGED << inputVars, exc, cache, region, url, max_retries, ret,
                    gwOut, resolved, ncalls, composeVars, tokenVars, clockVars, poolVars >>

\* the loop is over: return None
GetGivesUp ==
    /\ pc = "gwr_loop"
    /\ ~LoopContinues(attempt, max_retries)
    /\ fetched' = None
    /\ pc' = ret
    /\ UNCHANGED << inputVars, exc, cache, region, url, max_retries, attempt, ret,
                    gwOut, gets, calls, resolved, ncalls,
                    composeVars, tokenVars, clockVars, poolVars >>

\* entering get_with_retry(u, m) with return label r
CallGetWithRetry(u, m, r) ==
    /\ url' = u
    /\ max_retries' = m
    /\ attempt' = 0
    /\ gets' = << >>
    /\ ret' = r
    /\ pc' = "gwr_loop"

(***************************************************************************)
(* WeatherAPI.get_weather                                                  *)
(***************************************************************************)
\* if not location_data or location_data['code'] != '200': raise ...
\* location_id = location_data['location'][0]['id']
LocationOutcome(j) ==
    IF ~Truthy(j) THEN Raised(ValueErrorRegion, "")
    ELSE IF j.code = Absent THEN Raised(KeyError, "")
    ELSE IF j.code # "200" THEN Raised(ValueErrorRegion, "")
    ELSE IF j.location = << >> THEN Raised(IndexError, "")
    ELSE Returned(j.location[1].id)

\* the tuple (text, f"{temp}°C", windDir); "*C" stands for the degree sign and C
Snapshot(n) == << n.text, n.temp \o "*C", n.windDir >>

\* if not weather_data or weather_data['code'] != '200': raise ...
\* result = (weather_data['now']['text'], ...)
WeatherOutcome(j) ==
    IF ~Truthy(j) THEN Raised(ValueErrorWeather, << >>)
    ELSE IF j.code = Absent THEN Raised(KeyError, << >>)
    ELSE IF j.code # "200" THEN Raised(ValueErrorWeather, << >>)
    ELSE IF ~j.has_now THEN Raised(KeyError, << >>)
    ELSE Returned(Snapshot(j.now))

\* (a variant: the cache is never consulted)
CacheNeverHit(c, r) == FALSE

\* if region in self.cache
CacheHit(c, r) == r \in DOMAIN c

\* lines 54-59: the cache check, then the geocoding lookup
GwCheck ==
    /\ pc = "gw_check"
    /\ IF CacheHit(cache, region)
       THEN /\ gwOut' = Returned(cache[region])
            /\ calls' = [NoCalls EXCEPT !.hit = TRUE, !.known = region \in resolved]
            /\ pc' = "gw_ret"
            /\ UNCHANGED << url, max_retries, attempt, gets, ret >>
       ELSE /\ CallGetWithRetry(location_url(region), DefaultMaxRetries, "gw_location")
            /\ calls' = [NoCalls EXCEPT !.known = region \in resolved]
            /\ UNCHANGED gwOut
    /\ UNCHANGED << inputVars, exc, cache, region, fetched, resolved, ncalls,
                    composeVars, tokenVars, clockVars, poolVars >>

\* lines 61-68: check the geocoding answer, then the weather lookup
GwLocation ==
    /\ pc = "gw_location"
    /\ LET o == LocationOutcome(fetched)
       IN  IF o.kind = "raise"
           THEN /\ gwOut' = Raised(o.exc, << >>)
                /\ pc' = "gw_ret"
                /\ UNCHANGED << url, max_retries, attempt, gets, ret >>
           ELSE /\ CallGetWithRetry(weather_url(o.value), DefaultMaxRetries, "gw_weather")
                /\ UNCHANGED gwOut
    /\ UNCHANGED << inputVars, exc, cache, region, fetched, calls, resolved, ncalls,
                    composeVars, tokenVars, clockVars, poolVars >>

\* (a variant: the cache is written whatever the weather answer)
GwWeatherAlwaysCaches ==
    /\ pc = "gw_weather"
    /\ LET o == WeatherOutcome(fetched)
       IN  /\ gwOut' = o
           /\ cache' = Put(cache, region, o.value)
           /\ resolved' = IF o.kind = "return" THEN resolved \cup {region} ELSE resolved
    /\ pc' = "gw_ret"
    /\ UNCHANGED << inputVars, exc, region, url, max_retries, attempt, fetched, ret,
                    gets, calls, ncalls, composeVars, tokenVars, clockVars, poolVars >>

\* lines 70-79: check the weather answer, build the result, cache it
GwWeather ==
    /\ pc = "gw_weather"
    /\ LET o == WeatherOutcome(fetched)
       IN  /\ gwOut' = o
           /\ cache' = IF o.kind = "return" THEN Put(cache, region, o.value) ELSE cache
           /\ resolved' = IF o.kind = "return" THEN resolved \cup {region} ELSE resolved
    /\ pc' = "gw_ret"
    /\ UNCHANGED << inputVars, exc, region, url, max_retries, attempt, fetched, ret,
                    gets, calls, ncalls, composeVars, tokenVars, clockVars, poolVars >>


(***************************************************************************)
(* A driver for WeatherAPI alone: any sequence of get_weather(r) and       *)
(* get_with_retry(u, m) calls on one WeatherAPI object.                    *)
(***************************************************************************)
DriverResolve ==
    /\ pc = "idle"
    /\ ncalls < MaxCalls
    /\ \E r \in Regions : region' = r
    /\ pc' = "gw_check"
    /\ ncalls' = ncalls + 1
    /\ UNCHANGED << inputVars, exc, cache, url, max_retries, attempt, fetched, ret,
                    gwOut, gets, calls, resolved, composeVars, tokenVars, clockVars, poolVars >>

DriverResolved ==
    /\ pc = "gw_ret"
    /\ pc' = "idle"
    /\ UNCHANGED << inputVars, exc, lookupVars, composeVars, tokenVars, clockVars, poolVars >>

DriverFetch ==
    /\ pc = "idle"
    /\ ncalls < MaxCalls
    /\ \E r \in Regions, m \in 0..MaxRetryArg :
         CallGetWithRetry(location_url(r), m, "fetch_ret")
    /\ ncalls' = ncalls + 1
    /\ calls' = NoCalls
    /\ UNCHANGED << inputVars, exc, cache, region, fetched, gwOut, resolved,
                    composeVars, tokenVars, clockVars, poolVars >>

DriverFetched ==
    /\ pc = "fetch_ret"
    /\ pc' = "idle"
    /\ UNCHANGED << inputVars, exc, lookupVars, composeVars, tokenVars, clockVars, poolVars >>

(***************************************************************************)
(* MessageGenerator.generate_message_data                                  *)
(***************************************************************************)
\* week_list[today.weekday()]
WeekdayName(dt) == week_list[weekday(dt) + 1]

\* (a variant: the index is left out of the key)
KeyWithoutIndex(prefix, i) == prefix

\* the key f'anniversary_{idx}' / f'birthday_{idx}'
Key(prefix, i) == prefix \o "_" \o ToString(i)

FixedKeys == {"date", "region", "weather", "temp", "wind_dir"}

\* lines 153-165
BaseData(dt, r, w, t, wd) ==
    [k \in FixedKeys |->
        IF k = "date" THEN [value |-> << dt, WeekdayName(dt) >>]
        ELSE IF k = "region" THEN [value |-> << r >>]
        ELSE IF k = "weather" THEN [value |-> << w >>]
        ELSE IF k = "temp" THEN [value |-> << t >>]
        ELSE [value |-> << wd >>]]

\* lines 181-185: the next birthday, or the ValueError of date.replace
NextBirthday(birth_date, dt) ==
    IF ~replace_ok(birth_date, dt.year) THEN Raised(ValueErrorDate, None)
    ELSE LET nb == replace_year(birth_date, dt.year)
         IN  IF DateLess(nb, dt)
             THEN IF replace_ok(nb, dt.year + 1)
                  THEN Returned(replace_year(nb, dt.year + 1))
                  ELSE Raised(ValueErrorDate, None)
             ELSE Returned(nb)

\* status = "今天生日！" if days == 0 else f"还有{days}天"
Status(days) == IF days = 0 THEN << "birthday today" >> ELSE << "days left", days >>

\* send_messages line 199 calls generate_message_data: lines 143-147
GenStart ==
    /\ pc = "start"
    /\ today' = sysdate
    /\ region' = config.region
    /\ pc' = "gw_check"
    /\ UNCHANGED << inputVars, exc, cache, url, max_retries, attempt, fetched, ret, gwOut,
                    gets, calls, resolved, ncalls, lookup_exc, weather, temp, wind_dir, base_data,
                    anniversary_data, birthday_data, idx, data,
                    tokenVars, clockVars, poolVars >>

\* get_weather has returned: its frame and that of get_with_retry are gone
ReturnFromLookup ==
    /\ url' = location_url(config.region)
    /\ max_retries' = DefaultMaxRetries
    /\ attempt' = 0
    /\ fetched' = None
    /\ ret' = "none"
    /\ gwOut' = Returned(<< >>)
    /\ gets' = << >>
    /\ calls' = NoCalls

\* (a variant: except ValueError)
ExceptTakesValueError(e) == e \in {ValueErrorRegion, ValueErrorWeather}

\* except Exception as e: every exception get_weather can raise is one
ExceptTakes(e) == e \in {ValueErrorRegion, ValueErrorWeather, KeyError, IndexError}

\* lines 146-150: the try / except around get_weather
GenWeather ==
    /\ pc = "gw_ret"
    /\ lookup_exc' = gwOut.exc
    /\ IF gwOut.kind = "return"
       THEN /\ weather' = gwOut.value[1]
            /\ temp' = gwOut.value[2]
            /\ wind_dir' = gwOut.value[3]
            /\ pc' = "base"
            /\ UNCHANGED exc
       ELSE IF ExceptTakes(gwOut.exc)
       THEN /\ weather' = Unknown /\ temp' = Unknown /\ wind_dir' = Unknown
            /\ pc' = "base"
            /\ UNCHANGED exc
       ELSE /\ exc' = gwOut.exc
            /\ pc' = "failed"
            /\ UNCHANGED << weather, temp, wind_dir >>
    /\ ReturnFromLookup
    /\ UNCHANGED << inputVars, cache, region, resolved, ncalls, today, base_data,
                    anniversary_data, birthday_data, idx, data,
                    tokenVars, clockVars, poolVars >>

\* lines 153-168
GenBase ==
    /\ pc = "base"
    /\ base_data' = BaseData(today, config.region, weather, temp, wind_dir)
    /\ anniversary_data' = EmptyDict
    /\ idx' = 0
    /\ pc' = "anniversaries"
    /\ UNCHANGED << inputVars, exc, lookupVars, today, weather, temp, wind_dir, lookup_exc,
                    birthday_data, data, tokenVars, clockVars, poolVars >>

\* lines 169-175: one iteration of the anniversaries loop
GenAnniversary ==
    /\ pc = "anniversaries"
    /\ idx < Len(config.anniversaries)
    /\ LET ann == config.anniversaries[idx + 1]
       IN  IF ~parse_ok(ann.date)
           THEN /\ exc' = ValueErrorDate
                /\ pc' = "failed"
                /\ UNCHANGED << anniversary_data, idx >>
           ELSE LET start_date == parse_date(ann.date)
                    days == calculate_days(start_date, today)
                IN  /\ anniversary_data' =
                          Put(anniversary_data, Key("anniversary", idx),
                              [value |-> << ann.name, days >>])
                    /\ idx' = idx + 1
                    /\ UNCHANGED << exc, pc >>
    /\ UNCHANGED << inputVars, lookupVars, today, weather, temp, wind_dir, lookup_exc, base_data,
                    birthday_data, data, tokenVars, clockVars, poolVars >>

\* (a variant: the first send is handed to the pool before the birthdays loop)
GenAnniversariesEndSubmits ==
    /\ pc = "anniversaries"
    /\ idx >= Len(config.anniversaries)
    /\ birthday_data' = EmptyDict
    /\ idx' = 0
    /\ pc' = "birthdays"
    /\ wpc' = [wpc EXCEPT ![1] = "queued"]
    /\ UNCHANGED << inputVars, exc, lookupVars, today, weather, temp, wind_dir, lookup_exc, base_data,
                    anniversary_data, data, tokenVars, clockVars, submitted, wresp, wtoken,
                    postResp, result, results, summary, posts >>

\* lines 177-178: the loop is over
GenAnniversariesEnd ==
    /\ pc = "anniversaries"
    /\ idx >= Len(config.anniversaries)
    /\ birthday_data' = EmptyDict
    /\ idx' = 0
    /\ pc' = "birthdays"
    /\ UNCHANGED << inputVars, exc, lookupVars, today, weather, temp, wind_dir, lookup_exc, base_data,
                    anniversary_data, data, tokenVars, clockVars, poolVars >>

\* lines 179-189: one iteration of the birthdays loop
GenBirthday ==
    /\ pc = "birthdays"
    /\ idx < Len(config.birthdays)
    /\ LET bd == config.birthdays[idx + 1]
           nb == NextBirthday(parse_date(bd.date), today)
       IN  IF ~parse_ok(bd.date) \/ nb.kind = "raise"
           THEN /\ exc' = ValueErrorDate
                /\ pc' = "failed"
                /\ UNCHANGED << birthday_data, idx >>
           ELSE LET days == calculate_days(today, nb.value)
                IN  /\ birthday_data' =
                          Put(birthday_data, Key("birthday", idx),
                              [value |-> << bd.name, Status(days) >>])
                    /\ idx' = idx + 1
                    /\ UNCHANGED << exc, pc >>
    /\ UNCHANGED << inputVars, lookupVars, today, weather, temp, wind_dir, lookup_exc, base_data,
                    anniversary_data, data, tokenVars, clockVars, poolVars >>

\* line 191 and lines 195-203: return the merged mapping; send_messages opens the pool
GenReturn ==
    /\ pc = "birthdays"
    /\ idx >= Len(config.birthdays)
    /\ data' = Merge(Merge(base_data, anniversary_data), birthday_data)
    /\ pc' = "submit"
    /\ UNCHANGED << inputVars, exc, lookupVars, today, weather, temp, wind_dir, lookup_exc, base_data,
                    anniversary_data, birthday_data, idx, tokenVars, clockVars, poolVars >>


(***************************************************************************)
(* The messaging provider.                                                 *)
(***************************************************************************)
\* values of expires_in: 400 gives an expiry that passes at the next clock
\* advance, 7200 (the provider's usual value) one that outlives the run
ExpiresIn == {400, 7200}

TokenOk(tok, e) == [kind |-> "ok", access_token |-> tok, expires_in |-> e]

\* answers to the POST: errcode 0, a non-zero errcode, a body without errcode
PostBodies ==
    { [kind |-> "json", has_errcode |-> TRUE, errcode |-> 0],
      [kind |-> "json", has_errcode |-> TRUE, errcode |-> 40001],
      [kind |-> "json", has_errcode |-> FALSE, errcode |-> 0] }
PostRaised == [kind |-> "raise", has_errcode |-> FALSE, errcode |-> 0]

\* The clock advances.  Only lines 109 and 120 read it, so an advance is
\* taken when some worker is about to execute one of them.
Tick ==
    /\ \E i \in Recipients : wpc[i] \in {"check", "store_expire"}
    /\ ticks < MaxTicks
    /\ now' = now + TickStep
    /\ ticks' = ticks + 1
    /\ UNCHANGED << inputVars, pc, exc, lookupVars, composeVars, tokenVars, poolVars >>

(***************************************************************************)
(* WeChatService.get_access_token and send_template_message, run by the    *)
(* worker of recipient i.                                                  *)
(***************************************************************************)
workerFrame == << inputVars, pc, exc, lookupVars, composeVars, clockVars,
                  submitted, results, summary >>

\* the tasks now running in a pool thread
Running == { i \in Recipients : wpc[i] \notin {"unsubmitted", "queued", "done"} }

\* (a variant: one thread per task)
PoolUnbounded(running) == TRUE

\* a pool thread is free to take a task
PoolHasRoom(running) == Cardinality(running) < max_workers

\* a pool thread takes the oldest queued task and calls
\* send_template_message, which calls get_access_token (line 125)
WorkerStart(i) ==
    /\ wpc[i] = "queued"
    /\ \A j \in 1..(i - 1) : wpc[j] # "queued"
    /\ PoolHasRoom(Running)
    /\ wpc' = [wpc EXCEPT ![i] = "check"]
    /\ UNCHANGED << workerFrame, tokenVars, wresp, wtoken, postResp, result, posts >>

\* if datetime.now().timestamp() < self.token_expire
TokenValid(t, expire) == t < expire

\* line 109
TokenCheck(i) ==
    /\ wpc[i] = "check"
    /\ wpc' = [wpc EXCEPT ![i] = IF TokenValid(now, token_expire) THEN "cached" ELSE "exchange"]
    /\ UNCHANGED << workerFrame, tokenVars, wresp, wtoken, postResp, result, posts >>

\* line 110: return self.access_token
TokenCached(i) ==
    /\ wpc[i] = "cached"
    /\ wtoken' = [wtoken EXCEPT ![i] = access_token]
    /\ wpc' = [wpc EXCEPT ![i] = "post"]
    /\ UNCHANGED << workerFrame, tokenVars, wresp, postResp, result, posts >>

\* lines 112-115: the GET of the token endpoint answers with a token that
\* expires in e seconds
TokenGrantedFor(i, e) ==
    /\ wpc[i] = "exchange"
    /\ tokenCalls' = tokenCalls + 1
    /\ wresp' = [wresp EXCEPT ![i] = TokenOk(tokenCalls + 1, e)]
    /\ wpc' = [wpc EXCEPT ![i] = "store_token"]
    /\ UNCHANGED << workerFrame, access_token, token_expire, expire_from,
                    wtoken, postResp, result, posts >>

TokenGranted(i) == \E e \in ExpiresIn : TokenGrantedFor(i, e)

\* (a variant: a rejected exchange clears the cache)
TokenRejectedClearsCache(i) ==
    /\ wpc[i] = "exchange"
    /\ tokenCalls' = tokenCalls + 1
    /\ result' = [result EXCEPT ![i] = Raised(ValueErrorAuth, FALSE)]
    /\ wpc' = [wpc EXCEPT ![i] = "done"]
    /\ access_token' = 0
    /\ token_expire' = 0
    /\ UNCHANGED << workerFrame, expire_from, wresp, wtoken, postResp, posts >>

\* lines 112-117: the answer has no access_token: raise ValueError
TokenRejected(i) ==
    /\ wpc[i] = "exchange"
    /\ tokenCalls' = tokenCalls + 1
    /\ result' = [result EXCEPT ![i] = Raised(ValueErrorAuth, FALSE)]
    /\ wpc' = [wpc EXCEPT ![i] = "done"]
    /\ UNCHANGED << workerFrame, access_token, token_expire, expire_from,
                    wresp, wtoken, postResp, posts >>

\* line 113: get(url) or .json() raises
TokenTransportFails(i) ==
    /\ wpc[i] = "exchange"
    /\ tokenCalls' = tokenCalls + 1
    /\ result' = [result EXCEPT ![i] = Raised(RequestException, FALSE)]
    /\ wpc' = [wpc EXCEPT ![i] = "done"]
    /\ UNCHANGED << workerFrame, access_token, token_expire, expire_from,
                    wresp, wtoken, postResp, posts >>

\* line 119: self.access_token = response['access_token']
TokenStore(i) ==
    /\ wpc[i] = "store_token"
    /\ access_token' = wresp[i].access_token
    /\ wpc' = [wpc EXCEPT ![i] = "store_expire"]
    /\ UNCHANGED << workerFrame, token_expire, tokenCalls, expire_from,
                    wresp, wtoken, postResp, result, posts >>

\* (a variant: no safety margin)
ExpiryNoMargin(t, expires_in) == t + expires_in

\* datetime.now().timestamp() + response['expires_in'] - 300
Expiry(t, expires_in) == t + expires_in - TokenMargin

\* line 120
TokenStoreExpire(i) ==
    /\ wpc[i] = "store_expire"
    /\ token_expire' = Expiry(now, wresp[i].expires_in)
    /\ expire_from' = wresp[i].access_token
    /\ wpc' = [wpc EXCEPT ![i] = "return"]
    /\ UNCHANGED << workerFrame, access_token, tokenCalls,
                    wresp, wtoken, postResp, result, posts >>

\* line 121: return self.access_token
TokenReturn(i) ==
    /\ wpc[i] = "return"
    /\ wtoken' = [wtoken EXCEPT ![i] = access_token]
    /\ wresp' = [wresp EXCEPT ![i] = NoResponse]
    /\ wpc' = [wpc EXCEPT ![i] = "post"]
    /\ UNCHANGED << workerFrame, tokenVars, postResp, result, posts >>

\* if result.get('errcode') != 0: return False / return True
SendResult(body) == body.has_errcode /\ body.errcode = 0

\* lines 126-132: the POST is answered with the body b
PostAnsweredWith(i, b) ==
    /\ wpc[i] = "post"
    /\ posts' = [posts EXCEPT ![i] = @ + 1]
    /\ postResp' = [postResp EXCEPT ![i] = b]
    /\ result' = [result EXCEPT ![i] = Returned(SendResult(b))]
    /\ wtoken' = [wtoken EXCEPT ![i] = 0]
    /\ wpc' = [wpc EXCEPT ![i] = "done"]
    /\ UNCHANGED << workerFrame, tokenVars, wresp >>

PostAnswered(i) == \E b \in PostBodies : PostAnsweredWith(i, b)

\* line 126 or 127: post(...) or response.json() raises
PostFails(i) ==
    /\ wpc[i] = "post"
    /\ posts' = [posts EXCEPT ![i] = @ + 1]
    /\ postResp' = [postResp EXCEPT ![i] = PostRaised]
    /\ result' = [result EXCEPT ![i] = Raised(RequestException, FALSE)]
    /\ wtoken' = [wtoken EXCEPT ![i] = 0]
    /\ wpc' = [wpc EXCEPT ![i] = "done"]
    /\ UNCHANGED << workerFrame, tokenVars, wresp >>

(***************************************************************************)
(* MessageGenerator.send_messages                                          *)
(***************************************************************************)
mainFrame == << inputVars, lookupVars, composeVars, tokenVars, clockVars,
                wresp, wtoken, postResp, result, posts >>

\* lines 204-210: executor.submit for the next user
Submit ==
    /\ pc = "submit"
    /\ submitted < N
    /\ submitted' = submitted + 1
    /\ wpc' = [wpc EXCEPT ![submitted + 1] = "queued"]
    /\ pc' = IF submitted + 1 = N THEN "collect" ELSE "submit"
    /\ UNCHANGED << mainFrame, exc, results, summary >>

\* line 212: the next f.result() returns the worker's value
Collect ==
    /\ pc = "collect"
    /\ Len(results) < N
    /\ LET f == Len(results) + 1
       IN  /\ wpc[f] = "done"
           /\ result[f].kind = "return"
           /\ results' = Append(results, result[f].value)
    /\ pc' = IF Len(results) + 1 = N THEN "log" ELSE "collect"
    /\ UNCHANGED << mainFrame, exc, submitted, wpc, summary >>

\* line 212: the next f.result() re-raises the worker's exception
CollectRaises ==
    /\ pc = "collect"
    /\ Len(results) < N
    /\ LET f == Len(results) + 1
       IN  /\ wpc[f] = "done"
           /\ result[f].kind = "raise"
           /\ exc' = result[f].exc
    /\ pc' = "shutdown"
    /\ UNCHANGED << mainFrame, submitted, wpc, results, summary >>

RECURSIVE Sum(_)
Sum(bs) == IF bs = << >> THEN 0 ELSE (IF bs[1] THEN 1 ELSE 0) + Sum(Tail(bs))

\* (a variant: the failures are not len(results) - sum(results))
SummaryAllFailed(rs) == [logged |-> TRUE, sent |-> Sum(rs), failed |-> Len(rs)]

\* line 213: the final log line, sum(results) and len(results) - sum(results)
Summary(rs) == [logged |-> TRUE, sent |-> Sum(rs), failed |-> Len(rs) - Sum(rs)]

Log ==
    /\ pc = "log"
    /\ summary' = Summary(results)
    /\ pc' = "shutdown"
    /\ UNCHANGED << mainFrame, exc, submitted, wpc, results >>

\* (a variant: the pool is left without waiting for its workers)
ShutdownWithoutWait ==
    /\ pc = "shutdown"
    /\ pc' = IF exc = NoExc THEN "done" ELSE "failed"
    /\ UNCHANGED << mainFrame, exc, submitted, wpc, results, summary >>

\* leaving the with block: executor.shutdown(wait=True) returns when every
\* worker has finished; then send_messages returns or the exception reaches
\* __main__, which logs it and exits with status 1
Shutdown ==
    /\ pc = "shutdown"
    /\ \A i \in Recipients : wpc[i] = "done"
    /\ pc' = IF exc = NoExc THEN "done" ELSE "failed"
    /\ UNCHANGED << mainFrame, exc, submitted, wpc, results, summary >>

(***************************************************************************)
(* Specifications.                                                         *)
(***************************************************************************)
Compose ==
    \/ GenStart \/ GenWeather \/ GenBase \/ GenAnniversary \/ GenAnniversariesEnd
    \/ GenBirthday \/ GenReturn

Lookup ==
    \/ GetFails \/ GetSucceeds \/ GetGivesUp
    \/ GwCheck \/ GwLocation \/ GwWeather

Worker(i) ==
    \/ WorkerStart(i) \/ TokenCheck(i) \/ TokenCached(i)
    \/ TokenGranted(i) \/ TokenRejected(i) \/ TokenTransportFails(i)
    \/ TokenStore(i) \/ TokenStoreExpire(i) \/ TokenReturn(i)
    \/ PostAnswered(i) \/ PostFails(i)

Dispatch == Submit \/ Collect \/ CollectRaises \/ Log \/ Shutdown

\* the program
Next ==
    \/ Compose
    \/ Lookup
    \/ Dispatch
    \/ Tick
    \/ \E i \in Recipients : Worker(i)

Spec == Init /\ [][Next]_vars

\* one WeatherAPI object under any sequence of calls
InitLookup == \E r \in Regions : InitState(Config(r, << >>, << >>, 1), Date(2024, 2, 26), "idle")

NextLookup ==
    \/ DriverResolve \/ DriverResolved \/ DriverFetch \/ DriverFetched
    \/ Lookup

SpecLookup == InitLookup /\ [][NextLookup]_vars

\* send_messages from the point where generate_message_data has returned
\* the five fixed entries (the weather lookup having failed), for
\* 1..MaxUsers recipients
InitDispatch ==
    \E c \in DispatchConfigs :
        /\ InitObjects(c, Date(2024, 2, 26))
        /\ pc = "submit"
        /\ lookup_exc = ValueErrorRegion
        /\ base_data = BaseData(Date(2024, 2, 26), c.region, Unknown, Unknown, Unknown)
        /\ data = base_data

NextDispatch ==
    \/ Dispatch
    \/ Tick
    \/ \E i \in Recipients : Worker(i)

SpecDispatch == InitDispatch /\ [][NextDispatch]_vars


\* send_messages for one recipient more than the pool has threads, with a
\* provider that gives no token: every GET of the token endpoint is
\* answered without access_token or fails in transport
PoolUsers == max_workers + 1

InitPool ==
    LET c == Config("Beijing", << >>, << >>, PoolUsers)
    IN  /\ InitObjects(c, Date(2024, 2, 26))
        /\ pc = "submit"
        /\ lookup_exc = ValueErrorRegion
        /\ base_data = BaseData(Date(2024, 2, 26), c.region, Unknown, Unknown, Unknown)
        /\ data = base_data

PoolWorker(i) ==
    \/ WorkerStart(i) \/ TokenCheck(i)
    \/ TokenRejected(i) \/ TokenTransportFails(i)

NextPool ==
    \/ Submit \/ CollectRaises \/ Shutdown
    \/ \E i \in Recipients : PoolWorker(i)

SpecPool == InitPool /\ [][NextPool]_vars

\* The main thread and every pool thread keep running, and every GET of
\* the token endpoint ends.
FairSpecPool ==
    /\ SpecPool
    /\ WF_vars(Submit \/ CollectRaises \/ Shutdown)
    /\ \A i \in 1..PoolUsers : WF_vars(PoolWorker(i))

\* Each GET ends, by an answer or by its timeout of 10 s, so the retry loop
\* takes its next step.
FairSpecLookup == SpecLookup /\ WF_vars(GetFails \/ GetSucceeds \/ GetGivesUp)

(***************************************************************************)
(* Properties.                                                             *)
(***************************************************************************)
Terminated == pc \in {"done", "failed"}

\* recipients whose POST was answered with errcode 0
AnsweredZero ==
    { i \in Recipients : postResp[i].kind = "json" /\ postResp[i].has_errcode
                           /\ postResp[i].errcode = 0 }

\* C1: when the provider answers every send, each recipient's POST is issued
\* exactly once and the final counts are sent = the number of answers with
\* errcode 0 and failed = the number of the others, so sent + failed = N.
C1_EverySendCounted ==
    /\ \A i \in Recipients : posts[i] <= 1
    /\ (Terminated /\ \A i \in Recipients : postResp[i].kind = "json") =>
          /\ pc = "done"
          /\ summary.logged
          /\ \A i \in Recipients : posts[i] = 1
          /\ summary.sent = Cardinality(AnsweredZero)
          /\ summary.failed = N - Cardinality(AnsweredZero)
          /\ summary.sent + summary.failed = N

\* two recipients, the first answered with a non-zero errcode: sent 1, failed 1
C1_Witness ==
    /\ pc = "done" /\ N = 2
    /\ postResp[1].kind = "json" /\ postResp[1].errcode = 40001
    /\ summary.sent = 1 /\ summary.failed = 1

\* C2: a send failure (a transport failure of the POST included) is kept
\* inside the worker as the outcome "failed", and a dispatch in which every
\* recipient's POST was issued still ends with the counts, sent + failed = N.
C2_SendFailureCaptured ==
    /\ \A i \in Recipients :
          postResp[i].kind = "raise" => (result[i].kind = "return" /\ result[i].value = FALSE)
    /\ (Terminated /\ \A i \in Recipients : posts[i] = 1) =>
          /\ pc = "done"
          /\ summary.logged
          /\ summary.sent + summary.failed = N

\* workers that hold a granted token answer not yet written to the cache
Refreshing == { i \in Recipients : wpc[i] \in {"store_token", "store_expire"} }

\* C3: one refresh of the cache costs at most one token exchange: no two
\* workers ever hold an answer of the token endpoint for the same refresh.
C3_SingleTokenRefresh == Cardinality(Refreshing) <= 1

\* C4: when dispatch ends with the authentication failure, no recipient's
\* POST has been issued.
C4_AuthFailureMeansNoSend ==
    (pc = "failed" /\ exc = ValueErrorAuth) => \A i \in Recipients : posts[i] = 0

\* what a worker does next in get_access_token
C5_Step(i) ==
    /\ (wpc[i] = "check" /\ wpc'[i] # "check") =>
          /\ tokenCalls' = tokenCalls
          /\ (now < token_expire) => wpc'[i] = "cached"
          /\ (now >= token_expire) => wpc'[i] = "exchange"
    /\ (wpc[i] = "cached" /\ wpc'[i] # "cached") =>
          /\ tokenCalls' = tokenCalls
          /\ wtoken'[i] = access_token
          /\ wpc'[i] = "post"
    /\ (wpc[i] = "exchange" /\ wpc'[i] # "exchange") => tokenCalls' = tokenCalls + 1
    /\ (wpc[i] = "store_expire" /\ wpc'[i] # "store_expire") =>
          token_expire' = now + wresp[i].expires_in - 300

\* C5: the first call exchanges; a granted exchange with expires_in = E whose
\* expiry is stored at time t sets the cached expiry to t + E - 300; a call
\* at now < the cached expiry returns the cached token without a call to the
\* token endpoint, and a call at now >= the cached expiry goes to the
\* token endpoint.
C5_TokenCachedUntilExpiry ==
    /\ [](\A i \in Recipients :
             wpc[i] \in {"cached", "store_token", "store_expire", "return", "post"}
                => tokenCalls >= 1)
    /\ [][\A i \in Recipients : C5_Step(i)]_vars

\* after a clock advance the cached token is still valid and is returned
C5_Witness ==
    \E i \in Recipients :
        /\ wpc[i] = "post" /\ wtoken[i] = access_token /\ wtoken[i] # 0
        /\ tokenCalls = 1 /\ ticks = 1 /\ now < token_expire
        /\ \E j \in Recipients : j # i /\ wpc[j] = "done"

\* C6 as stated: exactly two GETs for a region not yet resolved, none for a
\* region already resolved.
C6_ExactlyTwoCalls ==
    pc = "gw_ret" =>
        IF calls.known
        THEN calls.geo + calls.weather = 0
        ELSE calls.geo = 1 /\ calls.weather = 1

\* C6: a region already resolved costs no GET and yields the cached
\* snapshot.  A region not yet resolved costs 1..3 geocoding GETs and 0..3
\* weather GETs; when a snapshot is returned the GETs are the two that were
\* answered plus the failed attempts (exactly two when no attempt failed),
\* and no weather GET is issued only when the call raises.
C6_LookupCalls ==
    pc = "gw_ret" =>
        /\ calls.hit = calls.known
        /\ calls.known =>
              /\ calls.geo = 0 /\ calls.weather = 0
              /\ gwOut.kind = "return" /\ gwOut.value = cache[region]
        /\ ~calls.known =>
              /\ calls.geo \in 1..3
              /\ calls.weather \in 0..3
              /\ gwOut.kind = "return" =>
                    /\ calls.geo + calls.weather = 2 + calls.failed
                    /\ gwOut.value = cache[region]
              /\ calls.weather = 0 => gwOut.kind = "raise"

\* the second call for a region is answered from the cache
C6_Witness ==
    /\ pc = "gw_ret" /\ calls.known /\ calls.hit
    /\ calls.geo = 0 /\ calls.weather = 0
    /\ ncalls = 2

LookupExceptions == {ValueErrorRegion, ValueErrorWeather, KeyError, IndexError}

PlaceholderEntries(d) ==
    /\ FixedKeys \subseteq DOMAIN d
    /\ d["weather"].value = << Unknown >>
    /\ d["temp"].value = << Unknown >>
    /\ d["wind_dir"].value = << Unknown >>

\* C7: however get_weather fails, its exception does not end the run: the
\* three weather entries get the placeholder, and unless a date of the
\* configuration stops composition, the payload is returned and the run
\* ends only after the worker of every recipient has run.
C7_WeatherFailureTolerated ==
    lookup_exc # NoExc =>
        /\ exc \notin LookupExceptions
        /\ weather = Unknown /\ temp = Unknown /\ wind_dir = Unknown
        /\ pc # "base" => PlaceholderEntries(base_data)
        /\ (Terminated /\ exc # ValueErrorDate) =>
              /\ PlaceholderEntries(data)
              /\ \A i \in Recipients : wpc[i] = "done" /\ result[i].kind # "pending"

\* the location list was empty, and the message was sent all the same
C7_Witness ==
    /\ lookup_exc = IndexError
    /\ pc = "done" /\ summary.logged /\ summary.sent = N

Malformed(entries) == \E k \in 1..Len(entries) : ~parse_ok(entries[k].date)

\* C8: a malformed date string in an anniversary or birthday entry does not
\* end the run with the date's exception.
C8_BadDateDoesNotAbort ==
    (Malformed(config.anniversaries) \/ Malformed(config.birthdays))
        => ~(pc = "failed" /\ exc = ValueErrorDate)

\* where get_with_retry has just returned
FetchReturned == pc \in {"gw_location", "gw_weather", "fetch_ret"}

C9_Attempts ==
    /\ Len(gets) <= max_retries
    /\ \A k \in 1..(Len(gets) - 1) : ~gets[k].ok
    /\ pc = "gwr_loop" => \A k \in 1..Len(gets) : ~gets[k].ok
    /\ FetchReturned =>
          IF Len(gets) > 0 /\ gets[Len(gets)].ok
          THEN fetched = gets[Len(gets)].body
          ELSE Len(gets) = max_retries /\ fetched = None

\* C9: get_with_retry issues at most max_retries GETs, returns the body of
\* the first GET that is answered and issues none after it, returns None
\* after exactly max_retries GETs when all fail, and always returns.
C9_BoundedRetry ==
    /\ []C9_Attempts
    /\ (pc = "gwr_loop") ~> FetchReturned

\* two failures, then an answer at the third and last attempt
C9_Witness ==
    /\ pc = "fetch_ret" /\ max_retries = 3 /\ Len(gets) = 3
    /\ ~gets[1].ok /\ ~gets[2].ok /\ gets[3].ok
    /\ fetched = gets[3].body

\* the name of the day of the week of a date: 2024-03-03 was a Sunday
DayName(dt) == week_list[((ToOrdinal(dt) - ToOrdinal(Date(2024, 3, 3))) % 7) + 1]

\* C10: the weekday name of the date entry is the name of today's day of
\* the week.
C10_WeekdayIsToday ==
    "date" \in DOMAIN base_data => base_data["date"].value[2] = DayName(today)

\* the birthday entries composed so far: positions 1..idx of the list
ComposedBirthdays ==
    { k \in 1..Len(config.birthdays) : Key("birthday", k - 1) \in DOMAIN birthday_data }

SameMonthDay(a, b) == a.month = b.month /\ a.day = b.day

\* C11: a birthday whose date string is a date (Feb 29 included) never stops
\* composition: its next occurrence is a date, and the entry composed for it
\* has the status "birthday today" exactly when today's month and day are
\* those of the birth date.
C11_NextOccurrenceDefined ==
    /\ (pc = "failed" /\ exc = ValueErrorDate) =>
          (Malformed(config.anniversaries) \/ Malformed(config.birthdays))
    /\ \A k \in ComposedBirthdays :
          LET b == parse_date(config.birthdays[k].date)
              status == birthday_data[Key("birthday", k - 1)].value[2]
          IN  (status = Status(0)) <=> SameMonthDay(b, today)

\* the names prefix_0 .. prefix_(n-1)
IndexedNames(prefix, n) == { prefix \o "_" \o ToString(k) : k \in 0..(n - 1) }

\* C12: the mapping generate_message_data returns has the five fixed keys,
\* anniversary_0 .. anniversary_(a-1) and birthday_0 .. birthday_(b-1) for
\* lists of lengths a and b, and no other: 5 + a + b distinct keys, the
\* five fixed keys alone when both lists are empty.
C12_PayloadKeys ==
    data # EmptyDict =>
        LET a == Len(config.anniversaries)
            b == Len(config.birthdays)
        IN  /\ DOMAIN data = FixedKeys \cup IndexedNames("anniversary", a)
                                       \cup IndexedNames("birthday", b)
            /\ Cardinality(DOMAIN data) = 5 + a + b
            /\ (a = 0 /\ b = 0) => DOMAIN data = FixedKeys

\* two anniversaries and two birthdays: nine keys
C12_Witness ==
    /\ pc = "done"
    /\ Len(config.anniversaries) = 2 /\ Len(config.birthdays) = 2
    /\ Cardinality(DOMAIN data) = 9
    /\ {"anniversary_1", "birthday_1"} \subseteq DOMAIN data

\* C13: whenever the cached token is valid (now < token_expire), the expiry
\* in the cache was computed from the same answer of the token endpoint as
\* the token in the cache; and get_access_token never returns an absent
\* token.
C13_CacheConsistent ==
    /\ TokenValid(now, token_expire) => expire_from = access_token
    /\ \A i \in Recipients : wpc[i] = "post" => wtoken[i] # 0

PoolStarted == \E i \in Recipients : wpc[i] \notin {"unsubmitted", "queued"}

C16_CacheWriteOnce ==
    /\ [](DOMAIN cache = resolved)
    /\ [][cache' # cache =>
            /\ pc = "gw_weather" /\ gwOut'.kind = "return"
            /\ region \notin DOMAIN cache
            /\ cache' = Put(cache, region, gwOut'.value)
            /\ \A r \in DOMAIN cache : cache'[r] = cache[r]]_vars
    /\ []((pc = "gw_ret" /\ gwOut.kind = "raise") => (~calls.hit /\ calls.geo >= 1))
    /\ []((pc = "gw_ret" /\ ~calls.known) => (~calls.hit /\ calls.geo >= 1))

\* the third call raises for Paris on the network, after Beijing was
\* cached: Beijing's entry is still the only one
C16_Witness ==
    /\ pc = "gw_ret" /\ ncalls = 3
    /\ gwOut.kind = "raise" /\ region = "Paris"
    /\ calls.geo >= 1 /\ calls.weather >= 1
    /\ DOMAIN cache = {"Beijing"}

\* the cases of the geocoding step: no result or a body without fields, the
\* status field absent, a status other than "200", no location in the list
Step1Failure(j) ==
    IF ~Truthy(j) THEN TRUE
    ELSE j.code = Absent \/ j.code # "200" \/ j.location = << >>

\* C17: when the geocoding step yields no result, a body without the status
\* field, a status other than "200" or an empty list of locations,
\* get_weather raises the region-lookup ValueError, and the weather
\* endpoint is not called.
C17_RegionNotFound ==
    (pc = "gw_ret" /\ ~calls.hit /\ Step1Failure(fetched) /\ url.endpoint = "geo") =>
        /\ gwOut.kind = "raise" /\ gwOut.exc = ValueErrorRegion
        /\ calls.weather = 0

\* workers whose get_access_token ended with a transport or decode failure
\* of the token GET (no POST was issued)
TokenGetFailed ==
    { i \in Recipients : /\ wpc[i] = "done" /\ posts[i] = 0
                         /\ result[i].kind = "raise" /\ result[i].exc = RequestException }

\* C18: a transport or decode failure of the token GET is retried: a call
\* of get_access_token ends with that failure only when the retry budget
\* of 3 GETs of the token endpoint has been spent.
C18_TokenExchangeRetried ==
    TokenGetFailed # {} => tokenCalls >= DefaultMaxRetries

\* C19: at most 5 sends are in a pool thread at any moment, also with more
\* than 5 recipients, and a recipient beyond the fifth is started only
\* when an earlier send has finished.
C19_BoundedParallelism ==
    /\ [](Cardinality(Running) <= 5)
    /\ [][\A i \in Recipients :
            (i > 5 /\ wpc[i] = "queued" /\ wpc'[i] # "queued") =>
                /\ \E j \in 1..(i - 1) : wpc[j] = "done"
                /\ Cardinality(Running) < 5]_vars

\* the sixth send runs next to four others, the first having finished
C19_Witness ==
    /\ N = 6 /\ wpc[6] = "check"
    /\ Cardinality(Running) = 5
    /\ wpc[1] = "done"

\* C20: a call of get_access_token that ends with a rejected exchange or
\* with a transport failure writes nothing to the cache: neither its check
\* of the expiry nor its failed exchange changes access_token or
\* token_expire, so the cache is valid after the failure exactly when it
\* was valid before it.
C20_FailedRefreshKeepsCache ==
    [][\A i \in Recipients :
          /\ (wpc[i] = "check" /\ wpc'[i] # "check") =>
                UNCHANGED << access_token, token_expire >>
          /\ (wpc[i] = "exchange" /\ wpc'[i] = "done") =>
                /\ result'[i].kind = "raise"
                /\ UNCHANGED << access_token, token_expire >>
                /\ TokenValid(now', token_expire') = TokenValid(now, token_expire)]_vars

\* the second worker's exchange was rejected after the first had stored a
\* token: the token is still cached and valid
C20_Witness ==
    /\ N = 2 /\ wpc[2] = "done"
    /\ result[2].kind = "raise" /\ result[2].exc = ValueErrorAuth
    /\ tokenCalls = 2
    /\ access_token = 1 /\ expire_from = 1 /\ TokenValid(now, token_expire)

=============================================================================
